---------------------------- MODULE Spec2Model ----------------------------
(***************************************************************************)
(* Model of cmd/genlayout (src/cmd/genlayout/main.go): the generator that  *)
(* turns the parsed table descriptions ([]tableInfo) into the table enum,  *)
(* the width formulas, the decode functions, the CodedTable dispatch and   *)
(* the tables struct, writes them to one buffer, formats the buffer and    *)
(* writes zlayout.go.                                                      *)
(*                                                                         *)
(* The emitted Go text is modelled by its content: every Fprintf of a      *)
(* writer becomes one record of the writer's artifact, in emission order.  *)
(* A table is named by its place in tables.go (name and tableName are the  *)
(* two spellings of one identifier), a column by its place in the struct.  *)
(*                                                                         *)
(* Spec is main as written.  Its schemas are of two families: those that   *)
(* vary the columns (LayoutSchema) and those that vary the codes, the      *)
(* exported flags and the order of the tables (CatalogSchema).             *)
(* SpecAnyOrder calls writeTableValues and the builders in every order,    *)
(* the order of main being one of them, and runs a pair of writers         *)
(* together, both writing into the one buffer.                             *)
(***************************************************************************)
EXTENDS Integers, Sequences, FiniteSets, TLC

VARIABLES
    given,      \* the []tableInfo parseTables returned
    tables,     \* the same slice as the writers find it when they are called
    pc,         \* position of main: "write", "format", "file", "done", "panic", "fatal"
    w,          \* the bytes.Buffer: the sections written so far, in order
    dispatch,   \* cases of the CodedTable switch (writeCodedTable)
    catalog,    \* constants of the table enum, in emission order (writeTableValues)
    tableMax,   \* the name tableMax is defined from ("" while not emitted)
    widths,     \* cases of the width switch (writeTableWidth)
    impl,       \* table() methods (writeTableImpl)
    registry,   \* struct fields and initTables statements (writeTablesStruct)
    plans,      \* decode functions (writeTableEncoding)
    src,        \* what formatSource returned: "unset", "nil" or "formatted"
    files       \* the files of the working directory the run has written

vars == <<given, tables, pc, w, dispatch, catalog, tableMax, widths, impl, registry,
          plans, src, files>>

-----------------------------------------------------------------------------
(* Bounds of the model.                                                    *)

\* at most this many tables in the schema
MaxTables == 2
\* at most this many fields in the whole schema
MaxFields == 2

\* names of the table structs, in declaration order of tables.go
TableNames == <<"T1", "T2", "T3", "T4">>
\* a @ref name that no table of the schema carries
Missing == "Missing"
\* table codes tried: the low end, and the top of uint8
Codes == {0, 1, 255}
\* @code names tried; only the first is a scheme of the consuming library
Schemes == {"TypeDefOrRef", "Bogus"}
\* tableInfo.code and the generated `type table uint8` are 8 bits wide
Uint8Range == 256

-----------------------------------------------------------------------------
(* The parsed schema: tableInfo and its fields.                            *)

\* a Go string the code looks into is the sequence of its characters
flagsPrefix == <<"f", "l", "a", "g", "s", ".">>

\* the type names of the uint columns tried: the plain ones, two types of
\* the flags package, and one that only begins like the package
TypeUint8 == <<"u", "i", "n", "t", "8">>
TypeUint16 == <<"u", "i", "n", "t", "1", "6">>
TypeUint32 == <<"u", "i", "n", "t", "3", "2">>
TypeUint64 == <<"u", "i", "n", "t", "6", "4">>
TypeAttributes == flagsPrefix \o <<"T", "y", "p", "e", "A", "t", "t", "r", "i", "b", "u", "t", "e", "s">>
MethodAttributes == flagsPrefix \o <<"M", "e", "t", "h", "o", "d", "A", "t", "t", "r", "i", "b", "u", "t", "e", "s">>
TypeFlagsKind == <<"f", "l", "a", "g", "s", "K", "i", "n", "d">>

NoField == [columnType |-> "", size |-> 0, typeName |-> <<>>, tableName |-> "", coded |-> ""]

\* the columnType constants main.go switches on
columnTypeUint == "columnTypeUint"
columnTypeString == "columnTypeString"
columnTypeGUID == "columnTypeGUID"
columnTypeBlob == "columnTypeBlob"
columnTypeIndex == "columnTypeIndex"
columnTypeCodedIndex == "columnTypeCodedIndex"
columnTypeSlice == "columnTypeSlice"
\* a columnType value that is none of the seven constants
columnTypeOther == "columnTypeOther"

RecognisedTypes == {columnTypeUint, columnTypeString, columnTypeGUID, columnTypeBlob,
                    columnTypeIndex, columnTypeCodedIndex, columnTypeSlice}

UintFields ==
    { [NoField EXCEPT !.columnType = columnTypeUint, !.size = p[1], !.typeName = p[2]] :
        p \in { <<1, TypeUint8>>, <<2, TypeUint16>>, <<4, TypeUint32>>,
                <<4, TypeAttributes>>, <<2, MethodAttributes>>, <<2, TypeFlagsKind>>,
                <<8, TypeUint64>> } }

HeapFields ==
    { [NoField EXCEPT !.columnType = k] :
        k \in {columnTypeString, columnTypeGUID, columnTypeBlob} }

RefFields ==
    { [NoField EXCEPT !.columnType = k, !.tableName = tn] :
        k \in {columnTypeIndex, columnTypeSlice}, tn \in {TableNames[1], Missing} }

CodedFields ==
    { [NoField EXCEPT !.columnType = columnTypeCodedIndex, !.coded = c] : c \in Schemes }

OtherFields == { [NoField EXCEPT !.columnType = columnTypeOther] }

FieldUniverse == UintFields \cup HeapFields \cup RefFields \cup CodedFields \cup OtherFields

Table(i, c, e, fs) ==
    [name |-> TableNames[i], tableName |-> TableNames[i], code |-> c, exported |-> e,
     fields |-> fs]

RECURSIVE SumTo(_, _)
\* counts[1] + ... + counts[n]
SumTo(counts, n) == IF n = 0 THEN 0 ELSE SumTo(counts, n - 1) + counts[n]

\* Schemas that vary the columns: up to MaxTables exported tables with the
\* codes 0, 1, ... and up to MaxFields columns in all, each any column of
\* FieldUniverse (flat lists the columns of all tables one after the other).
LayoutSchema(n, counts, flat) ==
    [i \in 1..n |->
        Table(i, i - 1, TRUE,
              SubSeq(flat, SumTo(counts, i - 1) + 1, SumTo(counts, i)))]

\* Schemas that vary the tables: up to MaxTables tables, each of any code of
\* Codes, exported or not, with no column or one plain column.
PlainFieldLists ==
    { <<>>, << [NoField EXCEPT !.columnType = columnTypeUint, !.size = 2,
                               !.typeName = TypeUint16] >> }

CatalogSchema(n, cs, es, fs) == [i \in 1..n |-> Table(i, cs[i], es[i], fs[i])]

Range(s) == { s[i] : i \in 1..Len(s) }

-----------------------------------------------------------------------------
(* main: the order of the writers.                                         *)

MainOrder == <<"prelude", "codedTable", "tableValues", "tableWidth", "tableImpl",
               "tablesStruct", "tableEncoding">>

\* the writer main calls next
Turn(b) == Len(w) < Len(MainOrder) /\ MainOrder[Len(w) + 1] = b

\* the builders of the coded dispatch, the width, the registry and the
\* decode functions
Builders == {"codedTable", "tableWidth", "tablesStruct", "tableEncoding"}

\* where the section of a builder can be cut between two Fprintf calls: at
\* the top level of the file (after a comment, a blank line or the closing
\* brace of a declaration), or inside a declaration (a function body, a
\* switch, a case clause, a struct) that the lines written so far left open
Cuts == {"top", "inside"}

\* the lines of a builder before a cut, when another section follows them
HeadTag ==
    [codedTable    |-> [top |-> "codedTable.top",    inside |-> "codedTable.inside"],
     tableWidth    |-> [top |-> "tableWidth.top",    inside |-> "tableWidth.inside"],
     tablesStruct  |-> [top |-> "tablesStruct.top",  inside |-> "tablesStruct.inside"],
     tableEncoding |-> [top |-> "tableEncoding.top", inside |-> "tableEncoding.inside"]]
HeadOf(b, cut) == HeadTag[b][cut]

\* the lines of a builder after the cut
RestTag ==
    [codedTable |-> "codedTable.rest", tableWidth |-> "tableWidth.rest",
     tablesStruct |-> "tablesStruct.rest", tableEncoding |-> "tableEncoding.rest"]
RestOf(b) == RestTag[b]

\* the section of a builder written to the buffer while another writer was
\* in the middle of its own, when the two writes did not come out whole
TornTag ==
    [codedTable |-> "codedTable.torn", tableWidth |-> "tableWidth.torn",
     tablesStruct |-> "tablesStruct.torn", tableEncoding |-> "tableEncoding.torn"]
TornOf(b) == TornTag[b]

HeadTags == { HeadOf(b, cut) : b \in Builders, cut \in Cuts }
InsideTags == { HeadOf(b, "inside") : b \in Builders }
RestTags == { RestOf(b) : b \in Builders }
TornTags == { TornOf(b) : b \in Builders }

\* the writer has written its section to the end
Finished(buf, b) ==
    b \in Range(buf) \/ (b \in Builders /\ {RestOf(b), TornOf(b)} \cap Range(buf) # {})

\* lines of the builder up to a cut are in the buffer
Begun(buf, b) == b \in Builders /\ { HeadOf(b, cut) : cut \in Cuts } \cap Range(buf) # {}

\* how many pieces of the buffer are of the tags
NumIn(buf, tags) == Cardinality({ i \in 1..Len(buf) : buf[i] \in tags })

\* a builder has written the lines up to a cut and not the rest
InFlight(buf) == NumIn(buf, HeadTags) > NumIn(buf, RestTags)

\* the buffers a writer can leave when it has written to the end of its
\* section. The section is in one piece unless the writer was cut and
\* something was written after the cut. A section written while another
\* writer is cut is written to a bytes.Buffer that two writers use without
\* a lock: it comes out whole or torn
Emits(buf, b) ==
    IF Begun(buf, b)
    THEN IF buf[Len(buf)] \in HeadTags
         THEN { [buf EXCEPT ![Len(buf)] = b] }
         ELSE { Append(buf, RestOf(b)) }
    ELSE IF b \in Builders /\ InFlight(buf)
         THEN { Append(buf, b), Append(buf, TornOf(b)) }
         ELSE { Append(buf, b) }

\* the call returned: main goes on to the next writer, or to formatSource
Returned(b) ==
    IF \A c \in Range(MainOrder) : c = b \/ Finished(w, c) THEN "format" ELSE "write"

-----------------------------------------------------------------------------
(* What each writer emits, as a function of the tables it is given.        *)

\* ExportedOf without the `if !t.exported { continue }`
ExportedOf_All(ts) == ts

\* the tables a `if !t.exported { continue }` loop keeps, in input order
ExportedOf(ts) == SelectSeq(ts, LAMBDA t : t.exported)

\* writeCodedTable: one `case tableName: return &t.name` per exported table
CodedCases(ts) ==
    [i \in 1..Len(ExportedOf(ts)) |->
        [case |-> ExportedOf(ts)[i].tableName, handle |-> ExportedOf(ts)[i].name]]

\* writeTableValues: the (name, value) copy of the tables, before sorting
EnumEntries(ts) == [i \in 1..Len(ts) |-> [name |-> ts[i].tableName, value |-> ts[i].code]]

Orderings(n) == { p \in [1..n -> 1..n] : \A i, j \in 1..n : p[i] = p[j] => i = j }

\* sort.Slice by value: every order of the copy that is ascending by value
\* (sort.Slice is not stable, entries of equal value may come out either way)
SortOrders(ts) ==
    { p \in Orderings(Len(ts)) :
        \A i \in 1..(Len(ts) - 1) :
            EnumEntries(ts)[p[i]].value <= EnumEntries(ts)[p[i + 1]].value }

\* the sorted copy
Sorted(ts, p) == [i \in 1..Len(ts) |-> EnumEntries(ts)[p[i]]]

\* TablesAfterSort had sort.Slice been given the slice itself
TablesAfterSort_InPlace(ts, p) == [i \in 1..Len(ts) |-> ts[p[i]]]

\* the tables after the sort: it sorted the copy, the slice is as it was
TablesAfterSort(ts, p) == ts

NoTerm == [kind |-> "", n |-> 0, ref |-> ""]

\* writeTableWidth: the width term of one column; "" when no case matches
WidthTerm(c) ==
    CASE c.columnType = columnTypeCodedIndex -> [NoTerm EXCEPT !.kind = "codedSizes", !.ref = c.coded]
      [] c.columnType \in {columnTypeIndex, columnTypeSlice} ->
                                          [NoTerm EXCEPT !.kind = "simpleSizes", !.ref = c.tableName]
      [] c.columnType = columnTypeString -> [NoTerm EXCEPT !.kind = "stringSize"]
      [] c.columnType = columnTypeGUID   -> [NoTerm EXCEPT !.kind = "guidSize"]
      [] c.columnType = columnTypeBlob   -> [NoTerm EXCEPT !.kind = "blobSize"]
      [] c.columnType = columnTypeUint   -> [NoTerm EXCEPT !.kind = "const", !.n = c.size]
      [] OTHER -> NoTerm

\* writeTableWidth: one `case tableName: return t1 + ... + tn` per table
WidthCases(ts) ==
    [i \in 1..Len(ts) |->
        [case |-> ts[i].tableName,
         terms |-> [j \in 1..Len(ts[i].fields) |-> WidthTerm(ts[i].fields[j])]]]

\* writeTableImpl: one table() method per table
ImplMethods(ts) == [i \in 1..Len(ts) |-> [recv |-> ts[i].name, ret |-> ts[i].tableName]]

\* writeTablesStruct: the struct fields, and the initTables statements
StructFields(ts) == [i \in 1..Len(ExportedOf(ts)) |-> ExportedOf(ts)[i].name]
InitStatements(ts) ==
    [i \in 1..Len(ExportedOf(ts)) |->
        [field |-> ExportedOf(ts)[i].name, elem |-> ExportedOf(ts)[i].name,
         id |-> ExportedOf(ts)[i].tableName]]

\* writeTableEncoding: the reader method of a uint column; "" is the default branch
UintFn(size) ==
    CASE size = 1 -> "uint8"
      [] size = 2 -> "uint16"
      [] size = 4 -> "uint32"
      [] OTHER -> ""

\* the column makes writeTableEncoding call log.Fatalf
Unsupported(f) == f.columnType = columnTypeUint /\ UintFn(f.size) = ""

\* strings.HasPrefix
HasPrefix(str, prefix) ==
    Len(str) >= Len(prefix) /\ SubSeq(str, 1, Len(prefix)) = prefix

\* strings.HasPrefix(f.typeName, "flags.")
HasFlagsPrefix(typeName) == HasPrefix(typeName, flagsPrefix)

NoStep == [field |-> 0, read |-> "", cast |-> <<>>, parent |-> "", arg |-> ""]

\* writeTableEncoding: the statement emitted for column j of table t;
\* NoStep when no case matches (nothing is emitted)
DecodeStep(t, j) ==
    LET f == t.fields[j] IN
    CASE f.columnType = columnTypeIndex  -> [NoStep EXCEPT !.field = j, !.read = "index", !.arg = f.tableName]
      [] f.columnType = columnTypeBlob   -> [NoStep EXCEPT !.field = j, !.read = "blob"]
      [] f.columnType = columnTypeGUID   -> [NoStep EXCEPT !.field = j, !.read = "guid"]
      [] f.columnType = columnTypeString -> [NoStep EXCEPT !.field = j, !.read = "string"]
      [] f.columnType = columnTypeUint   ->
            [NoStep EXCEPT !.field = j, !.read = UintFn(f.size),
                           !.cast = IF HasFlagsPrefix(f.typeName) THEN f.typeName ELSE <<>>]
      [] f.columnType = columnTypeCodedIndex -> [NoStep EXCEPT !.field = j, !.read = "coded", !.arg = f.coded]
      [] f.columnType = columnTypeSlice  ->
            [NoStep EXCEPT !.field = j, !.read = "slice", !.parent = t.tableName, !.arg = f.tableName]
      [] OTHER -> NoStep

RECURSIVE DecodeSteps(_, _)
\* the statements emitted for columns 1..n of table t
DecodeSteps(t, n) ==
    IF n = 0 THEN <<>>
    ELSE IF DecodeStep(t, n) = NoStep THEN DecodeSteps(t, n - 1)
    ELSE Append(DecodeSteps(t, n - 1), DecodeStep(t, n))

Min(S) == CHOOSE x \in S : \A y \in S : x <= y

\* the first column of t that makes writeTableEncoding stop (0: none)
FirstUnsupported(t) ==
    LET bad == { j \in 1..Len(t.fields) : Unsupported(t.fields[j]) }
    IN IF bad = {} THEN 0 ELSE Min(bad)

\* the first table writeTableEncoding stops in (0: none)
FatalTable(ts) ==
    LET bad == { i \in 1..Len(ts) : FirstUnsupported(ts[i]) # 0 }
    IN IF bad = {} THEN 0 ELSE Min(bad)

\* writeTableEncoding: the decode functions in the buffer when the writer
\* returns, or when it calls log.Fatalf (the function of the fatal column is
\* left open after the statements of the columns before it)
DecodeFuncs(ts) ==
    LET ft == FatalTable(ts) IN
    [i \in 1..(IF ft = 0 THEN Len(ts) ELSE ft) |->
        IF i = ft
        THEN [recv |-> ts[i].name, closed |-> FALSE,
              steps |-> DecodeSteps(ts[i], FirstUnsupported(ts[i]) - 1)]
        ELSE [recv |-> ts[i].name, closed |-> TRUE,
              steps |-> DecodeSteps(ts[i], Len(ts[i].fields))]]

\* format.Source on the buffer: the only text of these schemas that is not Go
\* is a width sum that ends in " + " (its last term is "" and it is not alone);
\* a "" term before another term reads as a unary plus
SumParses(terms) == ~ (Len(terms) >= 2 /\ terms[Len(terms)] = NoTerm)
FormatOK(ws) == \A i \in 1..Len(ws) : SumParses(ws[i].terms)

\* format.Source on a buffer whose sections are not all in one piece: a
\* section written after a cut inside a declaration is inside that
\* declaration, where the func declarations of a builder are not Go; the
\* decode functions of no table are a comment, which is Go anywhere
SectionsParse(buf, ts) ==
    \A i \in 1..(Len(buf) - 1) :
        buf[i] \in InsideTags => (buf[i + 1] = "tableEncoding" /\ Len(ts) = 0)

\* what format.Source can say of the buffer: a torn section may be Go or not
Parses(buf, ws, ts) ==
    IF Range(buf) \cap TornTags # {} THEN BOOLEAN
    ELSE { FormatOK(ws) /\ SectionsParse(buf, ts) }

Init ==
    /\ \E n \in 0..MaxTables :
          \/ \E counts \in [1..n -> 0..MaxFields] :
                /\ SumTo(counts, n) <= MaxFields
                /\ \E flat \in [1..SumTo(counts, n) -> FieldUniverse] :
                      tables = LayoutSchema(n, counts, flat)
          \/ \E cs \in [1..n -> Codes], es \in [1..n -> BOOLEAN],
                fs \in [1..n -> PlainFieldLists] :
                tables = CatalogSchema(n, cs, es, fs)
    /\ given = tables
    /\ pc = "write"
    /\ w = <<>>
    /\ dispatch = <<>>
    /\ catalog = <<>>
    /\ tableMax = ""
    /\ widths = <<>>
    /\ impl = <<>>
    /\ registry = [fields |-> <<>>, init |-> <<>>]
    /\ plans = <<>>
    /\ src = "unset"
    /\ files = {}

writePrelude ==
    /\ pc = "write" /\ ~ Finished(w, "prelude")
    /\ w' \in Emits(w, "prelude")
    /\ pc' = Returned("prelude")
    /\ UNCHANGED <<given, tables, dispatch, catalog, tableMax, widths, impl, registry,
                   plans, src, files>>

writeCodedTable ==
    /\ pc = "write" /\ ~ Finished(w, "codedTable")
    /\ dispatch' = CodedCases(tables)
    /\ w' \in Emits(w, "codedTable")
    /\ pc' = Returned("codedTable")
    /\ UNCHANGED <<given, tables, catalog, tableMax, widths, impl, registry, plans, src, files>>

\* sorted[len(sorted)-1] of an empty schema is a run-time panic, after the
\* head of the section went to the buffer
writeTableValues ==
    /\ pc = "write" /\ ~ Finished(w, "tableValues")
    /\ IF Len(tables) = 0
       THEN /\ w' = Append(w, "tableValues.partial")
            /\ pc' = "panic"
            /\ UNCHANGED <<tables, catalog, tableMax>>
       ELSE /\ \E p \in SortOrders(tables) :
                 /\ catalog' = Sorted(tables, p)
                 /\ tableMax' = Sorted(tables, p)[Len(tables)].name
                 /\ tables' = TablesAfterSort(tables, p)
            /\ w' \in Emits(w, "tableValues")
            /\ pc' = Returned("tableValues")
    /\ UNCHANGED <<given, dispatch, widths, impl, registry, plans, src, files>>

writeTableWidth ==
    /\ pc = "write" /\ ~ Finished(w, "tableWidth")
    /\ widths' = WidthCases(tables)
    /\ w' \in Emits(w, "tableWidth")
    /\ pc' = Returned("tableWidth")
    /\ UNCHANGED <<given, tables, dispatch, catalog, tableMax, impl, registry, plans, src, files>>

writeTableImpl ==
    /\ pc = "write" /\ ~ Finished(w, "tableImpl")
    /\ impl' = ImplMethods(tables)
    /\ w' \in Emits(w, "tableImpl")
    /\ pc' = Returned("tableImpl")
    /\ UNCHANGED <<given, tables, dispatch, catalog, tableMax, widths, registry, plans, src, files>>

writeTablesStruct ==
    /\ pc = "write" /\ ~ Finished(w, "tablesStruct")
    /\ registry' = [fields |-> StructFields(tables), init |-> InitStatements(tables)]
    /\ w' \in Emits(w, "tablesStruct")
    /\ pc' = Returned("tablesStruct")
    /\ UNCHANGED <<given, tables, dispatch, catalog, tableMax, widths, impl, plans, src, files>>

writeTableEncoding ==
    /\ pc = "write" /\ ~ Finished(w, "tableEncoding")
    /\ plans' = DecodeFuncs(tables)
    /\ IF FatalTable(tables) = 0
       THEN /\ w' \in Emits(w, "tableEncoding")
            /\ pc' = Returned("tableEncoding")
       ELSE /\ w' = Append(w, "tableEncoding.partial")
            /\ pc' = "fatal"
    /\ UNCHANGED <<given, tables, dispatch, catalog, tableMax, widths, impl, registry, src, files>>

\* how a call of os.WriteFile can end: the data written; an error before the
\* file is opened, which leaves no file; an error after the open has created
\* and truncated it, which leaves it empty or with a part of the data
WriteOutcomes == {"written", "unopened", "truncated", "partial"}

\* the file a call of os.WriteFile(name, data, 0644) leaves
WriteFile(name, data, outcome) ==
    CASE outcome = "written"   -> { <<name, data>> }
      [] outcome = "unopened"  -> {}
      [] outcome = "truncated" -> { <<name, "empty">> }
      [] outcome = "partial"   -> { <<name, IF data = "empty" THEN "empty" ELSE "partial">> }

\* format.Source fails: the buffer goes to zlayout.go.reject and the nil
\* src is returned; log.Fatalf when that file cannot be written
formatSource ==
    /\ pc = "format"
    /\ \E ok \in Parses(w, widths, tables) :
          IF ok
          THEN /\ src' = "formatted"
               /\ pc' = "file"
               /\ UNCHANGED files
          ELSE \E outcome \in WriteOutcomes :
                  /\ files' = files \cup WriteFile("zlayout.go.reject", "buffer", outcome)
                  /\ IF outcome = "written"
                     THEN src' = "nil" /\ pc' = "file"
                     ELSE pc' = "fatal" /\ UNCHANGED src
    /\ UNCHANGED <<given, tables, w, dispatch, catalog, tableMax, widths, impl, registry, plans>>

\* os.WriteFile("zlayout.go", src, 0644); log.Fatalf when it fails
writeFile ==
    /\ pc = "file"
    /\ \E outcome \in WriteOutcomes :
          /\ files' = files \cup
                WriteFile("zlayout.go", IF src = "nil" THEN "empty" ELSE "formatted", outcome)
          /\ pc' = IF outcome = "written" THEN "done" ELSE "fatal"
    /\ UNCHANGED <<given, tables, w, dispatch, catalog, tableMax, widths, impl, registry,
                   plans, src>>

\* main: the writers in the order of the source, then formatSource and WriteFile
Next ==
    \/ Turn("prelude") /\ writePrelude
    \/ Turn("codedTable") /\ writeCodedTable
    \/ Turn("tableValues") /\ writeTableValues
    \/ Turn("tableWidth") /\ writeTableWidth
    \/ Turn("tableImpl") /\ writeTableImpl
    \/ Turn("tablesStruct") /\ writeTablesStruct
    \/ Turn("tableEncoding") /\ writeTableEncoding
    \/ formatSource
    \/ writeFile

Spec == Init /\ [][Next]_vars

-----------------------------------------------------------------------------
(* The hypothesis of the specification, sections 2 and 5: the builders     *)
(* run in any order or together. main calls the writers one after another  *)
(* in one order; here writeTableValues and the builders are called in      *)
(* every order, the order of main among them, writePrelude and             *)
(* writeTableImpl in the places main calls them in; and two builders run   *)
(* together: one is cut between two of its Fprintf calls, another writes   *)
(* its section into the same buffer, and the first goes on. The writers    *)
(* before and after the two are then called in the order of main.          *)

RECURSIVE Columns(_, _)
\* the columns of the first n tables
Columns(ts, n) == IF n = 0 THEN 0 ELSE Columns(ts, n - 1) + Len(ts[n].fields)

\* the schemas run in every order: those that vary the codes and the
\* exported tables, every table with its one plain column, and those of
\* exported tables coded in order with at most one column in all, of every
\* column type
InitAnyOrder ==
    /\ Init
    /\ \/ \A i \in 1..Len(tables) : tables[i].fields \in PlainFieldLists \ { <<>> }
       \/ /\ Columns(tables, Len(tables)) <= 1
          /\ \A i \in 1..Len(tables) : tables[i].exported /\ tables[i].code = i - 1

\* a builder has written its section after the cut of the builder that has
\* not gone on
Overtaken(buf) == InFlight(buf) /\ buf[Len(buf)] \notin HeadTags

\* main calls writeTableImpl after writePrelude and three other writers
ImplTurn(buf) ==
    /\ "tableImpl" \notin Range(buf)
    /\ NumIn(buf, Range(MainOrder)) >= 4

\* the writers so far were called in the order of main
MainPrefix(buf) == buf = SubSeq(MainOrder, 1, Len(buf))

\* the writer main calls next of those that have not written their section
NextInMain(buf) ==
    LET left == { i \in 1..Len(MainOrder) : ~ Finished(buf, MainOrder[i]) }
    IN  { MainOrder[i] : i \in { j \in left : \A k \in left : j <= k } }

\* the writers that can write next: the builder that was cut, when another
\* has written its section after the cut; a builder, while one is cut; the
\* next writer of main, after two builders have run together; else
\* writeTableImpl when it is its turn, or any other writer
Callable(buf) ==
    IF buf = <<>> THEN {"prelude"}
    ELSE IF Overtaken(buf) THEN { b \in Builders : Begun(buf, b) /\ ~ Finished(buf, b) }
    ELSE IF InFlight(buf) THEN Builders
    ELSE IF NumIn(buf, RestTags) > 0 THEN NextInMain(buf)
    ELSE IF ImplTurn(buf) THEN {"tableImpl"}
    ELSE Range(MainOrder) \ {"tableImpl"}

\* the builder has a cut of the kind: every builder begins with a comment
\* and goes on to a declaration; the decode functions of no table are the
\* comment alone
CanCut(b, cut, ts) == cut = "top" \/ b # "tableEncoding" \/ Len(ts) > 0

\* a builder writes its lines up to a cut and is held up; one pair of
\* builders is run together in a run
writeHead(b, cut) ==
    /\ pc = "write"
    /\ b \in Callable(w) /\ MainPrefix(w)
    /\ ~ Finished(w, b) /\ CanCut(b, cut, tables)
    /\ w' = Append(w, HeadOf(b, cut))
    /\ UNCHANGED <<given, tables, pc, dispatch, catalog, tableMax, widths, impl, registry,
                   plans, src, files>>

NextAnyOrder ==
    \/ "prelude" \in Callable(w) /\ writePrelude
    \/ \E b \in Builders, cut \in Cuts : writeHead(b, cut)
    \/ "codedTable" \in Callable(w) /\ writeCodedTable
    \/ "tableValues" \in Callable(w) /\ writeTableValues
    \/ "tableWidth" \in Callable(w) /\ writeTableWidth
    \/ "tableImpl" \in Callable(w) /\ writeTableImpl
    \/ "tablesStruct" \in Callable(w) /\ writeTablesStruct
    \/ "tableEncoding" \in Callable(w) /\ writeTableEncoding
    \/ formatSource
    \/ writeFile

SpecAnyOrder == InitAnyOrder /\ [][NextAnyOrder]_vars
-----------------------------------------------------------------------------
(* The generated code at decode time: the layout of one container, the     *)
(* value of a width sum and what the statements of a decode function read. *)

\* an index is 2 or 4 bytes wide
IndexWidths == {2, 4}

\* the table constants the generated file declares for a schema
NamesOf(ts) == { ts[i].tableName : i \in 1..Len(ts) }

\* the @code names the consuming library defines a scheme for
KnownSchemes == {"TypeDefOrRef"}

\* the layouts (*layout) a container can resolve to: a size for every heap,
\* for every table constant and for every scheme constant that is declared
LayoutContexts(ts) ==
    [stringSize : IndexWidths, guidSize : IndexWidths, blobSize : IndexWidths,
     simpleSizes : [NamesOf(ts) -> IndexWidths], codedSizes : [KnownSchemes -> IndexWidths]]

\* the values a uint8 holds
InUint8(n) == n >= 0 /\ n < Uint8Range

\* the values one term of `return t1 + ... + tn` can have as a uint8 operand
\* of its own: none for a literal that does not fit, for a name that is not
\* declared, and for "", which is no expression
EvalTerm(term, la) ==
    CASE term.kind = "const"       -> IF InUint8(term.n) THEN { term.n } ELSE {}
      [] term.kind = "stringSize"  -> { la.stringSize }
      [] term.kind = "guidSize"    -> { la.guidSize }
      [] term.kind = "blobSize"    -> { la.blobSize }
      [] term.kind = "simpleSizes" ->
            IF term.ref \in DOMAIN la.simpleSizes THEN { la.simpleSizes[term.ref] } ELSE {}
      [] term.kind = "codedSizes"  ->
            IF term.ref \in DOMAIN la.codedSizes THEN { la.codedSizes[term.ref] } ELSE {}
      [] OTHER -> {}

\* a term that is an expression; a "" before another term leaves its "+" to
\* that term as a sign
IsOperand(term) == term # NoTerm

RECURSIVE LeadingConsts(_, _)
\* how many of the operands from the n-th on are literals in a row: the
\* compiler folds them into one constant
LeadingConsts(ops, n) ==
    IF n > Len(ops) \/ ops[n].kind # "const" THEN 0 ELSE 1 + LeadingConsts(ops, n + 1)

RECURSIVE SumConsts(_, _)
SumConsts(ops, n) == IF n = 0 THEN 0 ELSE SumConsts(ops, n - 1) + ops[n].n

RECURSIVE SumTerms(_, _, _, _)
\* the sum of the operands after the first m, up to the n-th
SumTerms(ops, m, n, la) ==
    IF n <= m THEN 0
    ELSE SumTerms(ops, m, n - 1, la) + (CHOOSE v \in EvalTerm(ops[n], la) : TRUE)

\* the values width(la) can return for a case, a function of result type
\* uint8: none when `return t1 + ... + tn` does not compile (no term at all,
\* a "" as the last term, a name that is not declared, a constant that does
\* not fit uint8), else the sum, wrapping in uint8
EvalWidth(terms, la) ==
    LET ops  == SelectSeq(terms, IsOperand)
        lead == LeadingConsts(ops, 1)
        head == SumConsts(ops, lead)
    IN IF terms = <<>> \/ terms[Len(terms)] = NoTerm THEN {}
       ELSE IF lead > 0 /\ ~ InUint8(head) THEN {}
       ELSE IF \E k \in (lead + 1)..Len(ops) : EvalTerm(ops[k], la) = {} THEN {}
       ELSE { (head + SumTerms(ops, lead, Len(ops), la)) % Uint8Range }

\* the bytes one statement of a decode function can take from the record:
\* the reads of the record reader, each of the width the layout resolves;
\* none when the statement names a constant that is not declared
StepWidth(step, la) ==
    CASE step.read = "uint8"  -> { 1 }
      [] step.read = "uint16" -> { 2 }
      [] step.read = "uint32" -> { 4 }
      [] step.read = "string" -> { la.stringSize }
      [] step.read = "guid"   -> { la.guidSize }
      [] step.read = "blob"   -> { la.blobSize }
      [] step.read \in {"index", "slice"} ->
            IF step.arg \in DOMAIN la.simpleSizes THEN { la.simpleSizes[step.arg] } ELSE {}
      [] step.read = "coded"  ->
            IF step.arg \in DOMAIN la.codedSizes THEN { la.codedSizes[step.arg] } ELSE {}
      [] OTHER -> {}

RECURSIVE SumSteps(_, _, _)
SumSteps(steps, n, la) ==
    IF n = 0 THEN 0
    ELSE SumSteps(steps, n - 1, la) + (CHOOSE v \in StepWidth(steps[n], la) : TRUE)

\* where the cursor can be after the first n statements
Advance(steps, n, la) ==
    IF \E k \in 1..n : StepWidth(steps[k], la) = {} THEN {} ELSE { SumSteps(steps, n, la) }

\* the value of a constant of the table enum
ConstValue(cat, name) == cat[CHOOSE k \in 1..Len(cat) : cat[k].name = name].value

\* the values `tableMax = base + 1` can have: base is a constant of type
\* table (uint8), a sum that does not fit the type does not compile
TableMaxValues(cat, base) ==
    IF ConstValue(cat, base) + 1 < Uint8Range THEN { ConstValue(cat, base) + 1 } ELSE {}

\* tableNone = tableMax
TableNoneValues(cat, base) == TableMaxValues(cat, base)

\* what CodedTable returns for a coded index of table tag: the handle of
\* every case whose constant is tag (two cases of one value do not compile),
\* nil from the default branch
CodedTable(cat, disp, tag) ==
    LET hit == { k \in 1..Len(disp) : ConstValue(cat, disp[k].case) = tag }
    IN IF hit = {} THEN { "nil" } ELSE { disp[k].handle : k \in hit }

Emitted(b) == b \in Range(w)

-----------------------------------------------------------------------------
(* Claims.                                                                 *)

\* C1: when main has called every writer (it is about to format the buffer), for
\* every table and every layout the table's width sum has a value, the
\* statements of the table's decode function move the cursor by exactly that
\* value, no prefix of them moves it further, every statement reads the
\* width of the term of its column, and every column of a recognised type
\* has its statement.
C1_DecodeAdvancesByWidth ==
    pc = "format" =>
        \A i \in 1..Len(given) :
            LET steps == plans[i].steps
                terms == widths[i].terms
            IN /\ plans[i].closed /\ plans[i].recv = given[i].name
               /\ widths[i].case = given[i].tableName
               /\ \A j \in 1..Len(given[i].fields) :
                     given[i].fields[j].columnType \in RecognisedTypes =>
                        \E k \in 1..Len(steps) : steps[k].field = j
               /\ \A k, l \in 1..Len(steps) : k < l => steps[k].field < steps[l].field
               /\ \A la \in LayoutContexts(given) :
                     LET width == EvalWidth(terms, la) IN
                     /\ width # {}
                     /\ Advance(steps, Len(steps), la) = width
                     /\ \A k \in 1..Len(steps) :
                           /\ \A a \in Advance(steps, k, la) : \A v \in width : a <= v
                           /\ StepWidth(steps[k], la) # {}
                           /\ StepWidth(steps[k], la) = EvalTerm(terms[steps[k].field], la)

\* the widths the specification gives a column kind: none for a reference
\* that does not resolve
KindWidth(f, la) ==
    CASE f.columnType = columnTypeUint       -> { f.size }
      [] f.columnType = columnTypeString     -> { la.stringSize }
      [] f.columnType = columnTypeBlob       -> { la.blobSize }
      [] f.columnType = columnTypeGUID       -> { la.guidSize }
      [] f.columnType \in {columnTypeIndex, columnTypeSlice} ->
            IF f.tableName \in DOMAIN la.simpleSizes THEN { la.simpleSizes[f.tableName] } ELSE {}
      [] f.columnType = columnTypeCodedIndex ->
            IF f.coded \in DOMAIN la.codedSizes THEN { la.codedSizes[f.coded] } ELSE {}
      [] OTHER -> {}

RECURSIVE SumKinds(_, _, _)
SumKinds(fs, n, la) ==
    IF n = 0 THEN 0 ELSE SumKinds(fs, n - 1, la) + (CHOOSE v \in KindWidth(fs[n], la) : TRUE)

AllRecognised(t) ==
    \A j \in 1..Len(t.fields) : t.fields[j].columnType \in RecognisedTypes

\* C2: when main has called every writer, the width case of every table whose
\* columns are all of the kinds of the data model has one term per column, in
\* column order, each with the value of the term of its kind, and at every
\* layout the width sum has a value, the sum of the kinds' widths.
C2_WidthIsSumOfKindTerms ==
    pc = "format" =>
        \A i \in 1..Len(given) :
          AllRecognised(given[i]) =>
            /\ widths[i].case = given[i].tableName
            /\ Len(widths[i].terms) = Len(given[i].fields)
            /\ \A la \in LayoutContexts(given) :
                  /\ \A j \in 1..Len(given[i].fields) :
                        /\ KindWidth(given[i].fields[j], la) # {}
                        /\ EvalTerm(widths[i].terms[j], la) = KindWidth(given[i].fields[j], la)
                  /\ EvalWidth(widths[i].terms, la)
                        = { SumKinds(given[i].fields, Len(given[i].fields), la) }

UniqueCodes(ts) == \A i, j \in 1..Len(ts) : ts[i].code = ts[j].code => i = j

MaxCode(ts) == CHOOSE c \in { ts[i].code : i \in 1..Len(ts) } :
                   \A i \in 1..Len(ts) : ts[i].code <= c

\* C3: for a schema of unique codes, once the table enum is in the buffer,
\* tableMax is the largest code plus one, tableNone is tableMax, and no table
\* has the value of tableNone.
C3_SentinelIsMaxPlusOne ==
    (Emitted("tableValues") /\ UniqueCodes(given)) =>
        /\ TableMaxValues(catalog, tableMax) = { MaxCode(given) + 1 }
        /\ TableNoneValues(catalog, tableMax) = TableMaxValues(catalog, tableMax)
        /\ \A i \in 1..Len(given) : given[i].code \notin TableNoneValues(catalog, tableMax)

Written(name) == \E f \in files : f[1] = name

\* C4: when two tables share a code, no artifact is emitted (no section of
\* the buffer after the prelude, whole or in part), no file is written and
\* the run does not complete.
C4_DuplicateCodesAbort ==
    ~ UniqueCodes(given) =>
        /\ \A b \in Range(w) : b = "prelude"
        /\ files = {}
        /\ pc # "done"

UnsupportedKind(f) ==
    \/ f.columnType \notin RecognisedTypes
    \/ f.columnType = columnTypeUint /\ f.size \notin {1, 2, 4}

HasUnsupportedKind(ts) ==
    \E i \in 1..Len(ts) : \E j \in 1..Len(ts[i].fields) : UnsupportedKind(ts[i].fields[j])

\* C5: no width case has an empty term, no finished decode function lacks
\* the statement of a column, and a schema with a column of an unsupported
\* kind never gets its zlayout.go.
C5_NoSilentDefault ==
    /\ \A i \in 1..Len(widths) : \A j \in 1..Len(widths[i].terms) : widths[i].terms[j] # NoTerm
    /\ \A i \in 1..Len(plans) :
          plans[i].closed =>
             \A j \in 1..Len(given[i].fields) :
                \E k \in 1..Len(plans[i].steps) : plans[i].steps[k].field = j
    /\ HasUnsupportedKind(given) => (pc # "done" /\ ~ Written("zlayout.go"))

Unresolved(f, ts) ==
    \/ f.columnType \in {columnTypeIndex, columnTypeSlice} /\ f.tableName \notin NamesOf(ts)
    \/ f.columnType = columnTypeCodedIndex /\ f.coded \notin KnownSchemes

HasUnresolved(ts) ==
    \E i \in 1..Len(ts) : \E j \in 1..Len(ts[i].fields) : Unresolved(ts[i].fields[j], ts)

\* C6: no width term and no decode statement names a table that is not in
\* the schema or a scheme that is not known, and a schema with an unresolved
\* reference never gets its zlayout.go.
C6_UnresolvedReferencesAbort ==
    /\ \A i \in 1..Len(widths) : \A j \in 1..Len(widths[i].terms) :
          LET term == widths[i].terms[j] IN
          /\ term.kind = "simpleSizes" => term.ref \in NamesOf(given)
          /\ term.kind = "codedSizes" => term.ref \in KnownSchemes
    /\ \A i \in 1..Len(plans) : \A k \in 1..Len(plans[i].steps) :
          LET step == plans[i].steps[k] IN
          /\ step.read \in {"index", "slice"} => step.arg \in NamesOf(given)
          /\ step.read = "coded" => step.arg \in KnownSchemes
    /\ HasUnresolved(given) => (pc # "done" /\ ~ Written("zlayout.go"))

\* every value a coded index can carry as its table
Tags == 0..(Uint8Range - 1)

\* C7: once the CodedTable switch and the table enum are in the buffer, a
\* tag that is the id of an exported table is mapped to the handle of that
\* table, and every other tag to nil.
C7_DispatchToOwnHandle ==
    (Emitted("codedTable") /\ Emitted("tableValues")) =>
        \A tag \in Tags :
            LET vis == { i \in 1..Len(given) : given[i].exported /\ given[i].code = tag }
            IN IF vis = {}
               THEN CodedTable(catalog, dispatch, tag) = { "nil" }
               ELSE \A i \in vis : CodedTable(catalog, dispatch, tag) = { given[i].name }

\* the place of the table of a registry entry in the schema
PlaceOf(ts, name) == CHOOSE i \in 1..Len(ts) : ts[i].name = name

\* one entry per exported table and none for another, each wired to the
\* constant of its own table
RegistryOfExported ==
    /\ \A i \in 1..Len(given) :
          Cardinality({ k \in 1..Len(registry.init) : registry.init[k].field = given[i].name })
             = IF given[i].exported THEN 1 ELSE 0
    /\ \A k \in 1..Len(registry.init) :
          \E i \in 1..Len(given) :
             /\ registry.init[k].field = given[i].name
             /\ registry.init[k].elem = given[i].name
             /\ registry.init[k].id = given[i].tableName
             /\ ConstValue(catalog, registry.init[k].id) = given[i].code
    /\ registry.fields = [k \in 1..Len(registry.init) |-> registry.init[k].field]

\* C8 as amended: once initTables and the table enum are in the buffer, the
\* registry has one entry per exported table and none for another, each
\* wired to its own table's id, in the order of the tables in the schema.
C8_RegistryInSchemaOrder ==
    (Emitted("tablesStruct") /\ Emitted("tableValues")) =>
        /\ RegistryOfExported
        /\ \A k, l \in 1..Len(registry.init) :
              k < l => PlaceOf(given, registry.init[k].field) < PlaceOf(given, registry.init[l].field)

\* C8 as stated: the entries are in ascending id order, the order of the enum.
C8_RegistryAscendingById ==
    (Emitted("tablesStruct") /\ Emitted("tableValues")) =>
        /\ RegistryOfExported
        /\ \A k, l \in 1..Len(registry.init) :
              k < l => ConstValue(catalog, registry.init[k].id)
                          <= ConstValue(catalog, registry.init[l].id)

\* C8 witness: two exported tables given in descending code order, one
\* entry each
C8_Witness ==
    /\ Emitted("tablesStruct") /\ Emitted("tableValues")
    /\ Len(given) = 2 /\ given[1].exported /\ given[2].exported
    /\ given[1].code > given[2].code
    /\ Len(registry.init) = 2

\* C9: zlayout.go is written only when every writer has returned, and then
\* it holds the formatted artifacts: never an empty or partial file.
C9_AllOrNothing ==
    \A f \in files :
        f[1] = "zlayout.go" =>
            /\ f[2] = "formatted"
            /\ Range(MainOrder) \subseteq Range(w)

\* the builders have run one after another: nothing was written after a
\* cut of a section but the rest of that section
Sequential(buf) == \A i \in 1..(Len(buf) - 1) : buf[i] \notin HeadTags

\* the artifact of every writer that has finished is the one the schema as
\* given determines
ArtifactsOfGiven ==
    /\ Finished(w, "codedTable") => dispatch = CodedCases(given)
    /\ Finished(w, "tableWidth") => widths = WidthCases(given)
    /\ Finished(w, "tablesStruct") =>
          registry = [fields |-> StructFields(given), init |-> InitStatements(given)]
    /\ Finished(w, "tableEncoding") => plans = DecodeFuncs(given)
    /\ Finished(w, "tableImpl") => impl = ImplMethods(given)
    /\ Finished(w, "tableValues") => \E p \in SortOrders(given) : catalog = Sorted(given, p)

\* the buffer is the artifacts one after another, in the order of the run:
\* the section of every builder that has finished is in one piece
ArtifactsConcatenated == \A b \in Builders : Finished(w, b) => b \in Range(w)

\* C10 as stated: whatever the order or interleaving the builders are run
\* in, the slice is as it was given, the artifact of every builder that has
\* finished is the one the schema as given determines, and the buffer is
\* these artifacts one after another, in the order of the run.
C10_BuildersOrderIndependent ==
    /\ tables = given
    /\ ArtifactsOfGiven
    /\ ArtifactsConcatenated

\* C10 as amended: the slice is always as it was given, and whatever the
\* order the builders are run in one after another, the artifact of every
\* builder that has finished is the one the schema as given determines and
\* the buffer is these artifacts one after another, in the order of the run.
C10_SequentialOrderIndependent ==
    /\ tables = given
    /\ Sequential(w) => (ArtifactsOfGiven /\ ArtifactsConcatenated)

\* C10 witness: the decode functions first and the table enum before the
\* registry, one after another, on two tables given in descending code order
C10_Witness ==
    /\ pc = "format" /\ Sequential(w)
    /\ Len(given) = 2 /\ given[1].code > given[2].code /\ given[1].exported
    /\ w[2] = "tableEncoding" /\ w[3] = "tableValues" /\ w[4] = "tablesStruct"
    /\ Len(plans) = 2 /\ Len(registry.init) >= 1

=============================================================================
